---- MODULE Spec2Model ----
(***************************************************************************)
(* ChessDuo tooling: the localization consolidator                         *)
(* (scripts/generate_localizable_xcstring.py) and the metadata exporter    *)
(* (export_metadata.py), each modelled as a state machine over an abstract *)
(* file system.  Strings are sequences of one-character strings, so that   *)
(* sorting, suffix tests, escapes and regular expressions are computed.    *)
(***************************************************************************)
EXTENDS Integers, Sequences, FiniteSets, TLC

VARIABLES
    entries,        \* os.listdir(project_dir): the names in the project directory
    files,          \* path -> file content, Absent when there is no such file
    args,           \* the parsed command line of the consolidator
    pc,             \* position of the consolidator inside main()
    locales,        \* main's `locales`: list of (locale, path)
    locales_data,   \* main's `locales_data`: insertion-ordered dict locale -> dict
    xc,             \* main's `xc`: the catalog build_xcstring returned
    idx,            \* index of the running for-loop (parse loop, rename loop)
    console,        \* the lines printed so far by this run (stdout and stderr)
    result,         \* "running", "exit0", "exit1" or the uncaught exception
    files0,         \* the files when this run started
    pre,            \* the files when rename_originals was entered
    runs,           \* the finished runs, oldest first
    text,           \* exporter: content of SRC
    pairs,          \* exporter: list of (lang_name, content)
    bidx,           \* exporter: index of the export loop
    metadata,       \* exporter: locale -> the five files written under OUT
    epc             \* exporter: position in the script

cvars == <<entries, files, args, pc, locales, locales_data, xc, idx, console,
           result, files0, pre, runs>>
evars == <<text, pairs, bidx, metadata, epc>>
vars == <<cvars, evars>>

(***************************************************************************)
(* Bounds of the model.                                                    *)
(***************************************************************************)
MaxRuns == 2          \* consecutive runs of the consolidator on one directory
MaxTotalLines == 3    \* lines of all .strings files together (CatalogSpec)
MaxTextLines == 5     \* lines of the exporter's source text (ExportSpec)

(***************************************************************************)
(* Strings.  Python compares str by code point.                            *)
(***************************************************************************)
Ord ==
    ("-" :> 45) @@ ("." :> 46) @@ ("A" :> 65) @@ ("B" :> 66) @@ ("G" :> 71) @@
    ("d" :> 100) @@ ("e" :> 101) @@ ("f" :> 102) @@ ("j" :> 106) @@
    ("l" :> 108) @@ ("n" :> 110) @@ ("o" :> 111) @@ ("p" :> 112) @@
    ("r" :> 114) @@ ("s" :> 115) @@ ("t" :> 116)

RECURSIVE StrLess(_, _)
StrLess(a, b) ==
    IF a = <<>> THEN b # <<>>
    ELSE IF b = <<>> THEN FALSE
    ELSE IF Ord[Head(a)] # Ord[Head(b)] THEN Ord[Head(a)] < Ord[Head(b)]
    ELSE StrLess(Tail(a), Tail(b))

RECURSIVE sorted(_)
sorted(S) ==
    IF S = {} THEN <<>>
    ELSE LET m == CHOOSE x \in S : \A y \in S \ {x} : StrLess(x, y)
         IN  <<m>> \o sorted(S \ {m})

endswith(s, suffix) ==
    /\ Len(s) >= Len(suffix)
    /\ SubSeq(s, Len(s) - Len(suffix) + 1, Len(s)) = suffix

\* str.replace(old, new): leftmost non-overlapping occurrences
RECURSIVE replace(_, _, _)
replace(s, old, new) ==
    IF Len(s) < Len(old) THEN s
    ELSE IF SubSeq(s, 1, Len(old)) = old
         THEN new \o replace(SubSeq(s, Len(old) + 1, Len(s)), old, new)
         ELSE <<Head(s)>> \o replace(Tail(s), old, new)

Range(s) == {s[i] : i \in 1..Len(s)}

(***************************************************************************)
(* Insertion-ordered dictionaries (Python dict): sequences of <<key, v>>.  *)
(***************************************************************************)
DictKeys(d) == [i \in 1..Len(d) |-> d[i][1]]
DictHas(d, k) == \E i \in 1..Len(d) : d[i][1] = k
DictGet(d, k) == d[CHOOSE i \in 1..Len(d) : d[i][1] = k][2]
DictSet(d, k, v) ==
    IF DictHas(d, k)
    THEN [i \in 1..Len(d) |-> IF d[i][1] = k THEN <<k, v>> ELSE d[i]]
    ELSE Append(d, <<k, v>>)

(***************************************************************************)
(* The file system of the consolidator.                                    *)
(***************************************************************************)
LprojSuffix == <<".", "l", "p", "r", "o", "j">>
DeLproj == <<"d", "e">> \o LprojSuffix
EnLproj == <<"e", "n">> \o LprojSuffix
EnGBLproj == <<"e", "n", "-", "G", "B">> \o LprojSuffix
Assets == <<"A", "s", "s", "e", "t", "s">>
LprojEntries == {DeLproj, EnGBLproj, EnLproj}

Absent == [kind |-> "absent"]
StringsFile(lines) == [kind |-> "strings", lines |-> lines]
CatalogFile(root) == [kind |-> "xcstrings", root |-> root]

\* os.path.join(project_dir, entry, f'{basename}.strings')
StringsPath(entry, basename) == <<entry, <<basename, ".strings">>>>
\* path + backup_ext
BackupPath(path, backup_ext) == <<path[1], Append(path[2], backup_ext)>>
\* os.path.join(project_dir, f'{args.basename}.xcstrings'): in project_dir itself
DefaultOutput(basename) == <<<<>>, <<basename, ".xcstrings">>>>

Paths ==
    {DefaultOutput("Localizable")} \cup
    {StringsPath(e, "Localizable") : e \in LprojEntries} \cup
    {BackupPath(StringsPath(e, "Localizable"), ".bak") : e \in LprojEntries}

isfile(fls, path) == path \in DOMAIN fls /\ fls[path] # Absent
exists(fls, path) == isfile(fls, path)
\* open(path, 'w') needs the directory of path
DirExists(listing, path) == path[1] = <<>> \/ path[1] \in listing

(***************************************************************************)
(* Lines of a .strings file.  kind says which branch of the parser the     *)
(* stripped line takes; an "entry" line is one STRING_LINE_RE matches,     *)
(* with its groups key and value as written (still escaped).               *)
(***************************************************************************)
EntryLine(key, value) == [kind |-> "entry", key |-> key, value |-> value]
OtherLine(kind) == [kind |-> kind, key |-> <<>>, value |-> <<>>]

\* json.dumps(xc, ensure_ascii=False, indent=2) as lines: one per scalar,
\* one per opening and closing brace; an empty object stays on its line
RECURSIVE EntryLineCount(_)
EntryLineCount(strings) ==
    IF strings = <<>> THEN 0
    ELSE 5 + 6 * Len(Head(strings)[2].localizations)
           + EntryLineCount(Tail(strings))
JsonLineCount(root) ==
    IF root.strings = <<>> THEN 5 ELSE 6 + EntryLineCount(root.strings)

\* the lines a reader of the file gets; no line of the JSON text has the
\* form "key" = "value";
FileLines(content) ==
    IF content.kind = "strings" THEN content.lines
    ELSE IF content.kind = "xcstrings"
         THEN [i \in 1..JsonLineCount(content.root) |-> OtherLine("other")]
         ELSE <<>>

(***************************************************************************)
(* Console lines.                                                          *)
(***************************************************************************)
Line(stream, kind, path, to, n, names) ==
    [stream |-> stream, kind |-> kind, path |-> path, to |-> to, n |-> n,
     names |-> names]
Out(kind, path, to, n, names) == Line("stdout", kind, path, to, n, names)
Err(kind, path, n, names) == Line("stderr", kind, path, <<>>, n, names)

(***************************************************************************)
(* parse_strings_file                                                      *)
(***************************************************************************)
unescape(s) ==
    replace(replace(replace(replace(s,
        <<"\\", "\"">>, <<"\"">>),
        <<"\\", "n">>, <<"\n">>),
        <<"\\", "\n">>, <<"\n">>),
        <<"\\", "\\">>, <<"\\">>)

\* a variant that keeps the first value of a repeated key
StoreEntryFirstWins(data, key, value) ==
    IF DictHas(data, key) THEN data ELSE DictSet(data, key, value)
\* data[key] = value
StoreEntry(data, key, value) == DictSet(data, key, value)

RECURSIVE parse_lines(_, _, _, _, _)
parse_lines(lines, lineno, path, data, err) ==
    IF lineno > Len(lines) THEN [data |-> data, err |-> err]
    ELSE LET line == lines[lineno] IN
         IF line.kind \in {"blank", "line_comment", "block_comment"}
         THEN parse_lines(lines, lineno + 1, path, data, err)
         ELSE IF line.kind # "entry"
         THEN parse_lines(lines, lineno + 1, path, data,
                          Append(err, Err("Unparsed line", path, lineno, <<>>)))
         ELSE LET key == unescape(line.key)
                  value == unescape(line.value)
                  err2 == IF DictHas(data, key)
                          THEN Append(err, Err("Duplicate key", path, lineno, key))
                          ELSE err
              IN  parse_lines(lines, lineno + 1, path,
                              StoreEntry(data, key, value), err2)

parse_strings_file(fls, path) ==
    IF ~isfile(fls, path) THEN [data |-> <<>>, err |-> <<>>]
    ELSE parse_lines(FileLines(fls[path]), 1, path, <<>>, <<>>)

(***************************************************************************)
(* discover_locales                                                        *)
(***************************************************************************)
\* for entry in sorted(os.listdir(project_dir))
Listing(listing) == sorted(listing)

RECURSIVE discover_entries(_, _, _)
discover_entries(listed, fls, basename) ==
    IF listed = <<>> THEN <<>>
    ELSE LET entry == Head(listed)
             rest == discover_entries(Tail(listed), fls, basename)
         IN  IF ~endswith(entry, LprojSuffix) THEN rest
             ELSE LET loc == SubSeq(entry, 1, Len(entry) - 6)
                      strings_path == StringsPath(entry, basename)
                  IN  IF isfile(fls, strings_path)
                      THEN <<<<loc, strings_path>>>> \o rest
                      ELSE rest

discover_locales(listing, fls, basename) ==
    discover_entries(Listing(listing), fls, basename)

(***************************************************************************)
(* build_xcstring                                                          *)
(***************************************************************************)
\* for k in kv.keys(): if k not in ordered_keys: ordered_keys.append(k)
RECURSIVE AddKeys(_, _)
AddKeys(ordered_keys, keys) ==
    IF keys = <<>> THEN ordered_keys
    ELSE AddKeys(IF Head(keys) \in Range(ordered_keys) THEN ordered_keys
                 ELSE Append(ordered_keys, Head(keys)),
                 Tail(keys))

\* for loc, kv in locales_data.items(): skip the source language
RECURSIVE AddOtherLocales(_, _, _)
AddOtherLocales(ordered_keys, items, source_language) ==
    IF items = <<>> THEN ordered_keys
    ELSE AddOtherLocales(
            IF Head(items)[1] = source_language THEN ordered_keys
            ELSE AddKeys(ordered_keys, DictKeys(Head(items)[2])),
            Tail(items), source_language)

\* a variant that puts the source language's keys after the others
OrderedKeysSourceLast(data, source_language) ==
    LET others == AddOtherLocales(<<>>, data, source_language)
    IN  IF DictHas(data, source_language)
        THEN AddKeys(others, DictKeys(DictGet(data, source_language)))
        ELSE others
OrderedKeys(data, source_language) ==
    AddOtherLocales(
        IF DictHas(data, source_language)
        THEN DictKeys(DictGet(data, source_language))
        ELSE <<>>,
        data, source_language)

\* locs: for lang, kv in locales_data.items(): if key in kv
RECURSIVE Localizations(_, _)
Localizations(key, items) ==
    IF items = <<>> THEN <<>>
    ELSE LET lang == Head(items)[1]
             kv == Head(items)[2]
             rest == Localizations(key, Tail(items))
         IN  IF DictHas(kv, key)
             THEN <<<<lang, [stringUnit |-> [state |-> "translated",
                                             value |-> DictGet(kv, key)]]>>>>
                  \o rest
             ELSE rest

build_xcstring(data, source_language, version) ==
    LET ordered_keys == OrderedKeys(data, source_language)
        strings_obj ==
            [i \in 1..Len(ordered_keys) |->
                <<ordered_keys[i],
                  [extractionState |-> "manual",
                   localizations |-> Localizations(ordered_keys[i], data)]>>]
    IN  [sourceLanguage |-> source_language,
         version |-> version,     \* str(version) of a str
         strings |-> strings_obj]

NoCatalog == [sourceLanguage |-> <<>>, version |-> "", strings |-> <<>>]

(***************************************************************************)
(* rename_originals: one iteration of its loop over `locales`.             *)
(* Returns the files, the lines printed and whether FileExistsError was    *)
(* raised.                                                                 *)
(***************************************************************************)
\* a variant that renames in a dry run too
rename_one_always(fls, path, backup_ext, dry_run, skip_if_exists) ==
    LET backup_path == BackupPath(path, backup_ext) IN
    IF exists(fls, backup_path)
    THEN [raised |-> ~skip_if_exists, out |-> <<>>, files |-> fls]
    ELSE [raised |-> FALSE,
          out |-> <<Out("[MOVE]", path, backup_path, 0, <<>>)>>,
          files |-> [fls EXCEPT ![path] = Absent, ![backup_path] = fls[path]]]
\* a variant that prints no [MOVE] line in a dry run
rename_one_quiet(fls, path, backup_ext, dry_run, skip_if_exists) ==
    LET backup_path == BackupPath(path, backup_ext) IN
    IF exists(fls, backup_path)
    THEN [raised |-> ~skip_if_exists, out |-> <<>>, files |-> fls]
    ELSE [raised |-> FALSE,
          out |-> IF dry_run THEN <<>>
                  ELSE <<Out("[MOVE]", path, backup_path, 0, <<>>)>>,
          files |-> IF dry_run THEN fls
                    ELSE [fls EXCEPT ![path] = Absent, ![backup_path] = fls[path]]]
\* a variant that leaves the original in place beside its backup
rename_one_copy(fls, path, backup_ext, dry_run, skip_if_exists) ==
    LET backup_path == BackupPath(path, backup_ext) IN
    IF exists(fls, backup_path)
    THEN [raised |-> ~skip_if_exists, out |-> <<>>, files |-> fls]
    ELSE [raised |-> FALSE,
          out |-> <<Out("[MOVE]", path, backup_path, 0, <<>>)>>,
          files |-> IF dry_run THEN fls
                    ELSE [fls EXCEPT ![backup_path] = fls[path]]]
\* lines 137-145
rename_one(fls, path, backup_ext, dry_run, skip_if_exists) ==
    LET backup_path == BackupPath(path, backup_ext) IN
    IF exists(fls, backup_path)
    THEN \* continue, or raise FileExistsError
         [raised |-> ~skip_if_exists, out |-> <<>>, files |-> fls]
    ELSE [raised |-> FALSE,
          out |-> <<Out("[MOVE]", path, backup_path, 0, <<>>)>>,
          files |-> IF dry_run THEN fls
                    ELSE \* os.rename(path, backup_path)
                         [fls EXCEPT ![path] = Absent, ![backup_path] = fls[path]]]

(***************************************************************************)
(* main: the command line, then one action per statement group.            *)
(***************************************************************************)
\* output = args.output or os.path.join(project_dir, f'{args.basename}.xcstrings')
OutputPath(a) ==
    IF a.output = <<>> THEN DefaultOutput(a.basename) ELSE a.output

En == <<"e", "n">>
Fr == <<"f", "r">>

ArgsOf(output, source_language, dry_run, no_backup, keep_backups) ==
    [basename |-> "Localizable",
     output |-> output,
     source_language |-> source_language,
     version |-> "1.0",
     backup_extension |-> ".bak",
     dry_run |-> dry_run,
     no_backup |-> no_backup,
     keep_backups |-> keep_backups]

ThisRun ==
    [args |-> args, files0 |-> files0, files |-> files, console |-> console,
     result |-> result, locales |-> locales]

\* a variant that returns 0 when nothing is discovered
DiscoverExitZero ==
    /\ pc = "discover"
    /\ locales' = discover_locales(entries, files, args.basename)
    /\ IF locales' = <<>>
       THEN /\ console' = Append(console, Err("No files found", <<>>, 0, <<>>))
            /\ result' = "exit0"
            /\ pc' = "exit"
       ELSE /\ console' = Append(console,
                    Out("Discovered locales", <<>>, <<>>, 0,
                        [i \in 1..Len(locales') |-> locales'[i][1]]))
            /\ result' = result
            /\ pc' = "parse"
    /\ idx' = 1
    /\ UNCHANGED <<entries, files, args, locales_data, xc, files0, pre, runs>>
    /\ UNCHANGED evars
\* locales = discover_locales(...); if not locales: ...; return 1
Discover ==
    /\ pc = "discover"
    /\ locales' = discover_locales(entries, files, args.basename)
    /\ IF locales' = <<>>
       THEN /\ console' = Append(console, Err("No files found", <<>>, 0, <<>>))
            /\ result' = "exit1"
            /\ pc' = "exit"
       ELSE /\ console' = Append(console,
                    Out("Discovered locales", <<>>, <<>>, 0,
                        [i \in 1..Len(locales') |-> locales'[i][1]]))
            /\ result' = result
            /\ pc' = "parse"
    /\ idx' = 1
    /\ UNCHANGED <<entries, files, args, locales_data, xc, files0, pre, runs>>
    /\ UNCHANGED evars

\* for loc, path in locales: locales_data[loc] = parse_strings_file(path); print
ParseNext ==
    /\ pc = "parse"
    /\ idx <= Len(locales)
    /\ LET loc == locales[idx][1]
           path == locales[idx][2]
           parsed == parse_strings_file(files, path)
       IN  /\ locales_data' = DictSet(locales_data, loc, parsed.data)
           /\ console' = console \o parsed.err
                  \o <<Out("Parsed", path, <<>>, Len(parsed.data), <<>>)>>
    /\ idx' = idx + 1
    /\ UNCHANGED <<entries, files, args, pc, locales, xc, result, files0, pre, runs>>
    /\ UNCHANGED evars

\* a variant that goes on to the renames without writing the output
BuildNoWrite ==
    /\ pc = "parse"
    /\ idx > Len(locales)
    /\ xc' = build_xcstring(locales_data, args.source_language, args.version)
    /\ console' =
         (IF ~DictHas(locales_data, args.source_language)
          THEN Append(console,
                      Out("[WARN] Source language not found", <<>>, <<>>, 0,
                          args.source_language))
          ELSE console)
         \o <<Out("Will write", OutputPath(args), <<>>, Len(xc'.strings), <<>>)>>
    /\ pc' = "backup"
    /\ UNCHANGED <<entries, files, args, locales, locales_data, idx, result,
                   files0, pre, runs>>
    /\ UNCHANGED evars
\* the source-language warning, build_xcstring, json.dumps, "Will write"
BuildCatalog ==
    /\ pc = "parse"
    /\ idx > Len(locales)
    /\ xc' = build_xcstring(locales_data, args.source_language, args.version)
    /\ console' =
         (IF ~DictHas(locales_data, args.source_language)
          THEN Append(console,
                      Out("[WARN] Source language not found", <<>>, <<>>, 0,
                          args.source_language))
          ELSE console)
         \o <<Out("Will write", OutputPath(args), <<>>, Len(xc'.strings), <<>>)>>
    /\ pc' = "write"
    /\ UNCHANGED <<entries, files, args, locales, locales_data, idx, result,
                   files0, pre, runs>>
    /\ UNCHANGED evars

\* if not args.dry_run: open(output, 'w') ... else: print("[DRY-RUN] ...")
WriteOutput ==
    /\ pc = "write"
    /\ IF ~args.dry_run
       THEN IF ~DirExists(entries, OutputPath(args))
            THEN \* open raises FileNotFoundError
                 /\ result' = "FileNotFoundError"
                 /\ pc' = "exit"
                 /\ UNCHANGED <<files, console>>
            ELSE /\ files' = [files EXCEPT ![OutputPath(args)] = CatalogFile(xc)]
                 /\ console' = Append(console,
                                      Out("Wrote", OutputPath(args), <<>>, 0, <<>>))
                 /\ pc' = "backup"
                 /\ result' = result
       ELSE /\ console' = Append(console,
                                 Out("[DRY-RUN] Skipped writing output",
                                     <<>>, <<>>, 0, <<>>))
            /\ pc' = "backup"
            /\ UNCHANGED <<files, result>>
    /\ UNCHANGED <<entries, args, locales, locales_data, xc, idx, files0, pre, runs>>
    /\ UNCHANGED evars

\* if not args.no_backup: rename_originals(...) else: print("Skipping ...")
StartBackup ==
    /\ pc = "backup"
    /\ IF ~args.no_backup
       THEN /\ pc' = "rename"
            /\ idx' = 1
            /\ pre' = files
            /\ UNCHANGED <<console, result>>
       ELSE /\ console' = Append(console,
                                 Out("Skipping backup/rename", <<>>, <<>>, 0, <<>>))
            /\ result' = "exit0"
            /\ pc' = "exit"
            /\ UNCHANGED <<idx, pre>>
    /\ UNCHANGED <<entries, files, args, locales, locales_data, xc, files0, runs>>
    /\ UNCHANGED evars

\* rename_originals: for loc, path in locales
RenameNext ==
    /\ pc = "rename"
    /\ idx <= Len(locales)
    /\ LET step == rename_one(files, locales[idx][2], args.backup_extension,
                              args.dry_run, args.keep_backups)
       IN  /\ files' = step.files
           /\ console' = console \o step.out
           /\ IF step.raised
              THEN /\ result' = "FileExistsError"
                   /\ pc' = "exit"
                   /\ idx' = idx
              ELSE /\ idx' = idx + 1
                   /\ UNCHANGED <<result, pc>>
    /\ UNCHANGED <<entries, args, locales, locales_data, xc, files0, pre, runs>>
    /\ UNCHANGED evars

\* rename_originals returns; return 0
RenameDone ==
    /\ pc = "rename"
    /\ idx > Len(locales)
    /\ result' = "exit0"
    /\ pc' = "exit"
    /\ UNCHANGED <<entries, files, args, locales, locales_data, xc, idx, console,
                   files0, pre, runs>>
    /\ UNCHANGED evars

\* the same command line is run again on the directory as the last run left
\* it, with or without --dry-run
Rerun ==
    /\ pc = "exit"
    /\ Len(runs) + 1 < MaxRuns
    /\ \E d \in BOOLEAN : args' = [args EXCEPT !.dry_run = d]
    /\ runs' = Append(runs, ThisRun)
    /\ pc' = "discover"
    /\ locales' = <<>>
    /\ locales_data' = <<>>
    /\ xc' = NoCatalog
    /\ idx' = 1
    /\ console' = <<>>
    /\ result' = "running"
    /\ files0' = files
    /\ pre' = files
    /\ UNCHANGED <<entries, files>>
    /\ UNCHANGED evars

(***************************************************************************)
(* Initial states of the consolidator.                                     *)
(***************************************************************************)
Hello == <<"H", "i">>
SampleFile(e) ==
    IF e = DeLproj
    THEN StringsFile(<<OtherLine("block_comment"),
                       EntryLine(Hello, <<"d", "e">>)>>)
    ELSE IF e = EnLproj
    THEN StringsFile(<<EntryLine(Hello, <<"e", "n">>),
                       OtherLine("blank"),
                       EntryLine(<<"B", "y", "e">>, <<"e", "n">>),
                       OtherLine("other")>>)
    ELSE StringsFile(<<OtherLine("line_comment"),
                       EntryLine(Hello, <<"G", "B">>),
                       EntryLine(Hello, <<"G", "B", "!">>)>>)
OldBackup == StringsFile(<<EntryLine(<<"o", "l", "d">>, <<"o", "l", "d">>)>>)

\* st[e]: "nodir" no <e> folder, "empty" a folder without files, "res" the
\* .strings file only, "bak" a backup only, "both"
FilesOf(st, oldout) ==
    [p \in Paths |->
        IF p[1] = <<>>
        THEN IF oldout THEN CatalogFile(NoCatalog) ELSE Absent
        ELSE IF p = StringsPath(p[1], "Localizable")
             THEN IF st[p[1]] \in {"res", "both"} THEN SampleFile(p[1]) ELSE Absent
             ELSE IF st[p[1]] \in {"bak", "both"} THEN OldBackup ELSE Absent]

EIdle ==
    /\ text = <<>>
    /\ pairs = <<>>
    /\ bidx = 1
    /\ metadata = <<>>
    /\ epc = "idle"

StartOfRun ==
    /\ pc = "discover"
    /\ locales = <<>>
    /\ locales_data = <<>>
    /\ xc = NoCatalog
    /\ idx = 1
    /\ console = <<>>
    /\ result = "running"
    /\ files0 = files
    /\ pre = files
    /\ runs = <<>>

Init ==
    /\ \E st \in [LprojEntries -> {"nodir", "empty", "res", "bak", "both"}],
          oldout \in BOOLEAN :
          /\ entries = {e \in LprojEntries : st[e] # "nodir"} \cup {Assets}
          /\ files = FilesOf(st, oldout)
    /\ \E output \in {<<>>} \cup (Paths \ {DefaultOutput("Localizable")}),
          dry_run \in BOOLEAN, no_backup \in BOOLEAN, keep_backups \in BOOLEAN :
          args = ArgsOf(output, En, dry_run, no_backup, keep_backups)
    /\ StartOfRun
    /\ EIdle

Next ==
    \/ Discover
    \/ ParseNext
    \/ BuildCatalog
    \/ WriteOutput
    \/ StartBackup
    \/ RenameNext
    \/ RenameDone
    \/ Rerun

Spec == Init /\ [][Next]_vars

(***************************************************************************)
(* CatalogSpec: parse_strings_file and build_xcstring on every small set   *)
(* of .strings files (main up to the point where the catalog is built).    *)
(***************************************************************************)
SampleLines ==
    {EntryLine(<<"a">>, <<"x">>),
     EntryLine(<<"a">>, <<"\\", "\"">>),
     EntryLine(<<"b">>, <<"x">>),
     EntryLine(<<"\\", "n">>, <<"x">>),
     EntryLine(<<"\\", "\\", "n">>, <<"y">>),
     OtherLine("other")}

CatalogInit ==
    /\ entries = LprojEntries \cup {Assets}
    /\ \E n1 \in 0..MaxTotalLines :
       \E n2 \in 0..(MaxTotalLines - n1) :
       \E n3 \in 0..(MaxTotalLines - n1 - n2) :
       \E f1 \in [1..n1 -> SampleLines], f2 \in [1..n2 -> SampleLines],
          f3 \in [1..n3 -> SampleLines] :
          files = [p \in Paths |->
                      IF p = StringsPath(DeLproj, "Localizable") THEN StringsFile(f1)
                      ELSE IF p = StringsPath(EnGBLproj, "Localizable") THEN StringsFile(f2)
                      ELSE IF p = StringsPath(EnLproj, "Localizable") THEN StringsFile(f3)
                      ELSE Absent]
    /\ \E source_language \in {En, Fr} :
          args = ArgsOf(<<>>, source_language, TRUE, FALSE, FALSE)
    /\ StartOfRun
    /\ EIdle

CatalogNext ==
    \/ Discover
    \/ ParseNext
    \/ BuildCatalog

CatalogSpec == CatalogInit /\ [][CatalogNext]_vars

(***************************************************************************)
(* The metadata exporter (export_metadata.py).  A text is a sequence of    *)
(* tokens: "\n", " ", "==", a field label such as "Name:", or a word.  A   *)
(* regular expression is matched token by token: \s matches "\n" and " ",  *)
(* the dot every token but "\n", a literal its own token.                  *)
(***************************************************************************)
LOCALES ==
    (<<"German">> :> "de-DE") @@ (<<"English">> :> "en-US") @@
    (<<"Spanish">> :> "es-ES") @@ (<<"French">> :> "fr-FR") @@
    (<<"Simplified", " ", "Chinese">> :> "zh-Hans")
FIELDS == <<"Name:", "Subtitle:", "Keywords:", "Promotional Text:">>

IsSpace(c) == c \in {" ", "\n"}
\* how many tokens from position p on \s* (greedy) can take
RECURSIVE WsRun(_, _)
WsRun(t, p) == IF p > Len(t) \/ ~IsSpace(t[p]) THEN 0 ELSE 1 + WsRun(t, p + 1)
\* how many tokens from position p on .* (greedy) can take
RECURSIVE DotRun(_, _)
DotRun(t, p) == IF p > Len(t) \/ t[p] = "\n" THEN 0 ELSE 1 + DotRun(t, p + 1)
\* MULTILINE: ^ at position p, $ at position p
AtLineStart(t, p) == p = 1 \/ t[p - 1] = "\n"
AtLineEnd(t, p) == p > Len(t) \/ t[p] = "\n"

\* str.strip()
RECURSIVE lstrip(_)
lstrip(t) == IF t # <<>> /\ IsSpace(Head(t)) THEN lstrip(Tail(t)) ELSE t
RECURSIVE rstrip(_)
rstrip(t) ==
    IF t # <<>> /\ IsSpace(t[Len(t)]) THEN rstrip(SubSeq(t, 1, Len(t) - 1)) ELSE t
strip(t) == rstrip(lstrip(t))

\* the matches of \n==\s*(.+?)\s*==\n that start at s: <<a, l, b>> are the
\* lengths \s*, (.+?) and \s* take
HeaderMatches(t, s) ==
    IF ~(s >= 1 /\ s + 1 <= Len(t) /\ t[s] = "\n" /\ t[s + 1] = "==") THEN {}
    ELSE UNION {UNION {{<<a, l, b>> :
                        b \in {b \in 0..WsRun(t, s + 2 + a + l) :
                                 LET q == s + 2 + a + l + b
                                 IN  q + 1 <= Len(t) /\ t[q] = "==" /\ t[q + 1] = "\n"}} :
                       l \in 1..DotRun(t, s + 2 + a)} :
               a \in 0..WsRun(t, s + 2)}
\* the match the backtracking matcher finds first: \s* greedy, .+? lazy,
\* \s* greedy
HeaderMatch(t, s) ==
    LET c == CHOOSE c \in HeaderMatches(t, s) : \A d \in HeaderMatches(t, s) :
                 \/ c[1] > d[1]
                 \/ c[1] = d[1] /\ c[2] < d[2]
                 \/ c[1] = d[1] /\ c[2] = d[2] /\ c[3] >= d[3]
    IN  [name |-> SubSeq(t, s + 2 + c[1], s + 1 + c[1] + c[2]),
         end |-> s + 3 + c[1] + c[2] + c[3]]

\* re.split(r"\n==\s*(.+?)\s*==\n", text) from position pos on
RECURSIVE re_split(_, _)
re_split(t, pos) ==
    LET starts == {s \in pos..Len(t) : HeaderMatches(t, s) # {}} IN
    IF starts = {} THEN <<SubSeq(t, pos, Len(t))>>
    ELSE LET s == CHOOSE s \in starts : \A u \in starts : s <= u
             m == HeaderMatch(t, s)
         IN  <<SubSeq(t, pos, s - 1), m.name>> \o re_split(t, m.end + 1)

\* list(zip(lang_blocks[1::2], lang_blocks[2::2]))
Pairs(lang_blocks) ==
    [i \in 1..((Len(lang_blocks) - 1) \div 2) |->
        <<lang_blocks[2 * i], lang_blocks[2 * i + 1]>>]

\* re.search(rf"^{field}:\s*(.*)$", content, MULTILINE), group(1).strip()
FieldValue(content, field) ==
    LET starts == {p \in 1..Len(content) :
                      AtLineStart(content, p) /\ content[p] = field}
    IN  IF starts = {} THEN <<>>
        ELSE LET p == CHOOSE p \in starts : \A u \in starts : p <= u
                 q == p + 1 + WsRun(content, p + 1)
             IN  strip(SubSeq(content, q, q + DotRun(content, q) - 1))

\* str.splitlines()
RECURSIVE splitlines(_)
splitlines(t) ==
    IF t = <<>> THEN <<>>
    ELSE LET n == DotRun(t, 1)
         IN  <<SubSeq(t, 1, n)>> \o splitlines(SubSeq(t, n + 2, Len(t)))
\* "\n".join(lines)
RECURSIVE join(_)
join(lines) ==
    IF lines = <<>> THEN <<>>
    ELSE IF Len(lines) = 1 THEN lines[1]
    ELSE lines[1] \o <<"\n">> \o join(Tail(lines))

\* re.search(r"^Promotional Text:\s*$", content, MULTILINE): the end() of the
\* leftmost match, 0 when there is none; \s* gives back until $ holds
PromoEnds(content, p) ==
    {p + a : a \in {a \in 0..WsRun(content, p + 1) : AtLineEnd(content, p + 1 + a)}}
PromoStarts(content) ==
    {p \in 1..Len(content) :
        /\ AtLineStart(content, p)
        /\ content[p] = "Promotional Text:"
        /\ PromoEnds(content, p) # {}}
promo_pos(content) ==
    IF PromoStarts(content) = {} THEN 0
    ELSE LET p == CHOOSE p \in PromoStarts(content) :
                      \A u \in PromoStarts(content) : p <= u
         IN  CHOOSE e \in PromoEnds(content, p) :
                 \A f \in PromoEnds(content, p) : e >= f

\* promo_pos = re.search(...); desc_text: the lines after the first line of
\* content[promo_pos.end():], or the whole content
desc_text(content) ==
    IF promo_pos(content) # 0
    THEN LET start == promo_pos(content)
             after == splitlines(SubSeq(content, start + 1, Len(content)))
         IN  join(IF after # <<>> THEN Tail(after) ELSE after)
    ELSE content

\* re.sub(r"^\s+", "", desc, flags=re.MULTILINE) from position p on
RECURSIVE sub_leading_space(_, _)
sub_leading_space(t, p) ==
    IF p > Len(t) THEN <<>>
    ELSE IF AtLineStart(t, p) /\ IsSpace(t[p])
         THEN sub_leading_space(t, p + WsRun(t, p))
         ELSE <<t[p]>> \o sub_leading_space(t, p + 1)
clean_desc(desc) == strip(sub_leading_space(desc, 1)) \o <<"\n">>

\* the five files written for one block
BlockFiles(content) ==
    [name_txt |-> FieldValue(content, FIELDS[1]) \o <<"\n">>,
     subtitle_txt |-> FieldValue(content, FIELDS[2]) \o <<"\n">>,
     keywords_txt |-> FieldValue(content, FIELDS[3]) \o <<"\n">>,
     promotional_text_txt |-> FieldValue(content, FIELDS[4]) \o <<"\n">>,
     description_txt |-> clean_desc(desc_text(content))]

\* text = SRC.read_text(); lang_blocks = re.split(...); pairs = ...
ReadAndSplit ==
    /\ epc = "read"
    /\ pairs' = Pairs(re_split(text, 1))
    /\ bidx' = 1
    /\ epc' = "export"
    /\ UNCHANGED <<text, metadata>>
    /\ UNCHANGED cvars

\* if lang_name not in LOCALES: continue
SkipBlock ==
    /\ epc = "export"
    /\ bidx <= Len(pairs)
    /\ pairs[bidx][1] \notin DOMAIN LOCALES
    /\ bidx' = bidx + 1
    /\ UNCHANGED <<text, pairs, metadata, epc>>
    /\ UNCHANGED cvars

\* target.mkdir(parents=True, exist_ok=True) and the five write_text calls
ExportBlock ==
    /\ epc = "export"
    /\ bidx <= Len(pairs)
    /\ pairs[bidx][1] \in DOMAIN LOCALES
    /\ metadata' = DictSet(metadata, LOCALES[pairs[bidx][1]],
                           BlockFiles(pairs[bidx][2]))
    /\ bidx' = bidx + 1
    /\ UNCHANGED <<text, pairs, epc>>
    /\ UNCHANGED cvars

\* print("Export complete ...")
FinishExport ==
    /\ epc = "export"
    /\ bidx > Len(pairs)
    /\ epc' = "done"
    /\ UNCHANGED <<text, pairs, bidx, metadata>>
    /\ UNCHANGED cvars

SampleTextLines ==
    {<<"==", " ", "English", " ", "==">>,
     <<"==", "German", "==">>,
     <<"==", " ", "Klingon", " ", "==">>,
     <<"Name:", " ", "Chess">>,
     <<"Promotional Text:">>,
     <<"promo">>,
     <<" ", "desc">>,
     <<>>}

CIdle ==
    /\ entries = {}
    /\ files = [p \in Paths |-> Absent]
    /\ args = ArgsOf(<<>>, En, TRUE, TRUE, FALSE)
    /\ pc = "idle"
    /\ locales = <<>>
    /\ locales_data = <<>>
    /\ xc = NoCatalog
    /\ idx = 1
    /\ console = <<>>
    /\ result = "running"
    /\ files0 = files
    /\ pre = files
    /\ runs = <<>>

ExportInit ==
    /\ \E n \in 0..MaxTextLines : \E ls \in [1..n -> SampleTextLines] :
       \E eof_newline \in BOOLEAN :
          text = join(ls) \o (IF eof_newline THEN <<"\n">> ELSE <<>>)
    /\ pairs = <<>>
    /\ bidx = 1
    /\ metadata = <<>>
    /\ epc = "read"
    /\ CIdle

ExportNext ==
    \/ ReadAndSplit
    \/ SkipBlock
    \/ ExportBlock
    \/ FinishExport

ExportSpec == ExportInit /\ [][ExportNext]_vars

(***************************************************************************)
(* What the claims speak about.                                            *)
(***************************************************************************)
\* the finished runs, the current one included once it has ended
AllRuns == IF pc = "exit" THEN Append(runs, ThisRun) ELSE runs

Kinds(lines) == {lines[i].kind : i \in 1..Len(lines)}
IsPlanLine(l) ==
    l.kind \in {"Discovered locales", "Parsed", "Will write", "[MOVE]"}
Plan(lines) == SelectSeq(lines, IsPlanLine)
\* the console with the line that reports the write (done or skipped) masked
Masked(lines) ==
    [i \in 1..Len(lines) |->
        IF lines[i].kind \in {"Wrote", "[DRY-RUN] Skipped writing output"}
        THEN Out("write report", <<>>, <<>>, 0, <<>>)
        ELSE lines[i]]

ResPaths == {StringsPath(e, "Localizable") : e \in LprojEntries}
BakPaths == {BackupPath(p, ".bak") : p \in ResPaths}
DiscoveredPaths(r) == {r.locales[k][2] : k \in 1..Len(r.locales)}

\* C1: a run with --dry-run changes nothing on the file system: at every
\* point of the run, and at its end (normal or by error), every file is as it
\* was before the run.
C1_DryRunChangesNothing ==
    /\ args.dry_run => files = files0
    /\ \A i \in 1..Len(runs) : runs[i].args.dry_run => runs[i].files = runs[i].files0
C1_Witness ==
    /\ pc = "exit"
    /\ args.dry_run
    /\ ~args.no_backup
    /\ "[MOVE]" \in Kinds(console)
    /\ "[DRY-RUN] Skipped writing output" \in Kinds(console)

\* C2 (as claimed): a --dry-run run and a run without it from the same state
\* print the same plan lines (discovered locales, parsed counts, planned
\* write, [MOVE] lines) in the same order.
C2_SamePlan ==
    \A i \in 1..Len(AllRuns), j \in 1..Len(AllRuns) :
        (/\ AllRuns[i].args.dry_run
         /\ ~AllRuns[j].args.dry_run
         /\ AllRuns[i].files0 = AllRuns[j].files0)
        => Plan(AllRuns[i].console) = Plan(AllRuns[j].console)
\* C2 (amended): when the run without --dry-run can write its output file
\* and the output path is not the backup path of a discovered file, the two
\* runs print the same plan lines, and their consoles differ only in the line
\* reporting the write ("Wrote" against "[DRY-RUN] Skipped writing output").
C2_SamePlanWhenOutputIsApart ==
    \A i \in 1..Len(AllRuns), j \in 1..Len(AllRuns) :
        (/\ AllRuns[i].args.dry_run
         /\ ~AllRuns[j].args.dry_run
         /\ AllRuns[i].files0 = AllRuns[j].files0
         /\ AllRuns[j].result # "FileNotFoundError"
         /\ OutputPath(AllRuns[j].args) \notin
                {BackupPath(p, ".bak") : p \in DiscoveredPaths(AllRuns[j])})
        => /\ Plan(AllRuns[i].console) = Plan(AllRuns[j].console)
           /\ Masked(AllRuns[i].console) = Masked(AllRuns[j].console)
C2_Witness ==
    /\ Len(AllRuns) = 2
    /\ AllRuns[1].args.dry_run
    /\ ~AllRuns[2].args.dry_run
    /\ AllRuns[2].result = "exit0"
    /\ "[MOVE]" \in Kinds(AllRuns[2].console)
    /\ "Wrote" \in Kinds(AllRuns[2].console)
    /\ AllRuns[1].files0 = AllRuns[2].files0

\* C3 (as claimed): the run ends with status 1, nothing written or renamed,
\* when no locale file is discovered, and with status 0 in every other run.
C3_ExitStatus ==
    pc = "exit" =>
        IF locales = <<>>
        THEN result = "exit1" /\ files = files0
        ELSE result = "exit0"
\* the output file cannot be created
WriteFails(a) == ~a.dry_run /\ ~DirExists(entries, OutputPath(a))
\* rename_originals meets a backup path that exists
Collision(a, locs, before) ==
    /\ ~a.no_backup
    /\ ~a.keep_backups
    /\ \E k \in 1..Len(locs) :
          LET backup_path == BackupPath(locs[k][2], a.backup_extension)
          IN  \/ before[backup_path] # Absent
              \/ ~a.dry_run /\ OutputPath(a) = backup_path
\* C3 (amended): status 1 with nothing written or renamed when no locale file
\* is discovered; otherwise status 0 unless an exception ends the run: the
\* output file cannot be written (FileNotFoundError), or archiving without
\* --keep-backups meets an existing backup path (FileExistsError).
C3_ExitStatusUnlessRaised ==
    pc = "exit" =>
        IF locales = <<>>
        THEN result = "exit1" /\ files = files0
        ELSE result = IF WriteFails(args) THEN "FileNotFoundError"
                      ELSE IF Collision(args, locales, files0) THEN "FileExistsError"
                      ELSE "exit0"
C3_Witness ==
    /\ pc = "exit"
    /\ locales # <<>>
    /\ result = "FileExistsError"
    /\ Len(runs) = 0

PartlyArchived ==
    \E a \in DiscoveredPaths(ThisRun), b \in DiscoveredPaths(ThisRun) :
        files[a] = Absent /\ files[b] # Absent
\* C4: when archiving without --keep-backups meets an existing backup path,
\* the run fails with FileExistsError, no backup file that existed when
\* archiving began is changed, and the discovered files are not left partly
\* archived (some renamed, others not).  Stated for the default --output.
C4_FatalWithoutPartialArchive ==
    (/\ pc = "exit"
     /\ args.output = <<>>
     /\ locales # <<>>
     /\ ~WriteFails(args)
     /\ Collision(args, locales, files0))
    => /\ result = "FileExistsError"
       /\ \A p \in BakPaths : pre[p] # Absent => files[p] = pre[p]
       /\ ~PartlyArchived

NoFlags(a) == ~a.dry_run /\ ~a.no_backup /\ ~a.keep_backups
\* C5 (as claimed): two runs in a row without --no-backup, --keep-backups and
\* --dry-run, the first from a state with a locale file and no backup file:
\* the second run does not end with status 0.
C5_SecondRunFails ==
    \A i \in 1..(Len(AllRuns) - 1) :
        (/\ NoFlags(AllRuns[i].args)
         /\ NoFlags(AllRuns[i + 1].args)
         /\ AllRuns[i].locales # <<>>
         /\ \A p \in BakPaths : AllRuns[i].files0[p] = Absent)
        => AllRuns[i + 1].result # "exit0"
\* the first run's output file is a new locale resource file
OutputIsNewResource(r) ==
    /\ OutputPath(r.args) \in ResPaths
    /\ DirExists(entries, OutputPath(r.args))
    /\ r.files0[OutputPath(r.args)] = Absent
\* C5 (amended): the same, provided the first run's --output does not create
\* a resource file <locale>.lproj/<basename>.strings that was not there: the
\* second run does not end with status 0, and when the first run archived
\* everything (status 0) the second ends with status 1 because it discovers
\* no locale file, before it looks at any backup.
C5_SecondRunFailsUnlessOutputIsResource ==
    \A i \in 1..(Len(AllRuns) - 1) :
        (/\ NoFlags(AllRuns[i].args)
         /\ NoFlags(AllRuns[i + 1].args)
         /\ AllRuns[i].locales # <<>>
         /\ \A p \in BakPaths : AllRuns[i].files0[p] = Absent
         /\ ~OutputIsNewResource(AllRuns[i]))
        => /\ AllRuns[i + 1].result # "exit0"
           /\ AllRuns[i].result = "exit0"
                => /\ AllRuns[i + 1].result = "exit1"
                   /\ AllRuns[i + 1].locales = <<>>
C5_Witness ==
    /\ Len(AllRuns) = 2
    /\ NoFlags(AllRuns[1].args)
    /\ NoFlags(AllRuns[2].args)
    /\ Len(AllRuns[1].locales) >= 2
    /\ \A p \in BakPaths : AllRuns[1].files0[p] = Absent
    /\ AllRuns[1].args.output = <<>>
    /\ AllRuns[1].result = "exit0"
    /\ AllRuns[2].result = "exit1"

Renamed == \E p \in ResPaths : files0[p] # Absent /\ files[p] = Absent
\* C6: a resource file is renamed only after every discovered file has been
\* parsed and the output file has been written, and a run that fails before
\* the rename step (no locale file found, output not writable) leaves every
\* resource file at its path with its content.
C6_ReadAllWriteThenRename ==
    /\ Renamed =>
          /\ pc \in {"rename", "exit"}
          /\ Len(SelectSeq(console, LAMBDA l : l.kind = "Parsed")) = Len(locales)
          /\ Len(locales_data) = Len(locales)
          /\ "Wrote" \in Kinds(console)
    /\ (pc = "exit" /\ result \in {"exit1", "FileNotFoundError"})
          => \A p \in ResPaths : files[p] = files0[p]
C6_Witness ==
    /\ pc = "exit"
    /\ result = "FileNotFoundError"
    /\ Len(locales) >= 2
    /\ ~args.no_backup
    /\ \A p \in DiscoveredPaths(ThisRun) : files[p] = files0[p] /\ files[p] # Absent

(***************************************************************************)
(* The catalog against the .strings files on disk.                         *)
(***************************************************************************)
LocaleOf(e) == SubSeq(e, 1, Len(e) - Len(LprojSuffix))
\* the folders whose .strings file exists when the run starts
Found == {e \in entries \cap LprojEntries : files0[StringsPath(e, "Localizable")] # Absent}
EntryLines(e) ==
    SelectSeq(FileLines(files0[StringsPath(e, "Localizable")]),
              LAMBDA l : l.kind = "entry")
\* the keys of the file's entries, unescaped, in file order
FileKeys(e) == [i \in 1..Len(EntryLines(e)) |-> unescape(EntryLines(e)[i].key)]
FirstPos(seq, k) == CHOOSE i \in 1..Len(seq) : seq[i] = k /\ \A j \in 1..(i - 1) : seq[j] # k
LastPos(seq, k) == CHOOSE i \in 1..Len(seq) : seq[i] = k /\ \A j \in (i + 1)..Len(seq) : seq[j] # k
AllKeys == UNION {Range(FileKeys(e)) : e \in Found}
SourceFolders == {e \in Found : LocaleOf(e) = args.source_language}
\* the place of folder e among the folders found: by folder name, or by
\* locale code
VisitIndex(byFolderName, e) ==
    1 + Cardinality({d \in Found :
                        IF byFolderName THEN StrLess(d, e)
                        ELSE StrLess(LocaleOf(d), LocaleOf(e))})
\* where key k belongs: <<0, position in the source file>>, or
\* <<place of the first other locale that has it, position in its file>>
Rank(byFolderName, k) ==
    IF \E e \in SourceFolders : k \in Range(FileKeys(e))
    THEN <<0, FirstPos(FileKeys(CHOOSE e \in SourceFolders : TRUE), k)>>
    ELSE LET holders == {e \in Found \ SourceFolders : k \in Range(FileKeys(e))}
             first == CHOOSE e \in holders : \A d \in holders :
                          VisitIndex(byFolderName, e) <= VisitIndex(byFolderName, d)
         IN  <<VisitIndex(byFolderName, first), FirstPos(FileKeys(first), k)>>
RankLess(r, q) == r[1] < q[1] \/ (r[1] = q[1] /\ r[2] < q[2])
KeyOrderIs(byFolderName) ==
    LET ks == DictKeys(xc.strings) IN
    /\ Range(ks) = AllKeys
    /\ \A i \in 1..Len(ks), j \in 1..Len(ks) :
          i < j => RankLess(Rank(byFolderName, ks[i]), Rank(byFolderName, ks[j]))

\* C7 (as claimed): the catalog's keys are the source-language file's keys in
\* file order (first occurrence), then the keys of other locales only, first
\* seen while visiting the locales sorted by locale code; no key twice, none
\* missing; all keys in that first-seen order when the source language has
\* no file.
C7_KeyOrderByLocaleCode == pc = "write" => KeyOrderIs(FALSE)
\* C7 (amended): the same, the other locales visited in discovery order,
\* which is the order of the folder names <locale>.lproj (en-GB.lproj sorts
\* before en.lproj, although en sorts before en-GB).
C7_KeyOrderByFolderName == pc = "write" => KeyOrderIs(TRUE)
C7_Witness ==
    /\ pc = "write"
    /\ args.source_language = En
    /\ Len(FileKeys(EnLproj)) >= 1
    /\ \E k \in Range(FileKeys(EnGBLproj)) :
          k \notin Range(FileKeys(EnLproj)) \cup Range(FileKeys(DeLproj))
    /\ \E k \in Range(FileKeys(DeLproj)) :
          k \notin Range(FileKeys(EnLproj)) \cup Range(FileKeys(EnGBLproj))
    /\ Len(xc.strings) = 3

DuplicateLines(e) ==
    {i \in 1..Len(FileKeys(e)) : \E j \in 1..(i - 1) : FileKeys(e)[j] = FileKeys(e)[i]}
DuplicateWarnings(e) ==
    SelectSeq(console,
              LAMBDA l : l.kind = "Duplicate key" /\ l.path = StringsPath(e, "Localizable"))
\* C8: the entry of key k has a localization for locale l exactly when k is
\* the key of an entry of l's file, one per locale, holding the value of the
\* last entry with that key; one warning is printed per repeated entry; the
\* values of all locales stand under the one entry of the key.
C8_LocalizationsMirrorFiles ==
    pc = "write" =>
        /\ \A i \in 1..Len(xc.strings), j \in 1..Len(xc.strings) :
              xc.strings[i][1] = xc.strings[j][1] => i = j
        /\ Range(DictKeys(xc.strings)) = AllKeys
        /\ \A k \in AllKeys :
              LET locs == DictGet(xc.strings, k).localizations IN
              /\ Range(DictKeys(locs)) \subseteq {LocaleOf(e) : e \in Found}
              /\ \A i \in 1..Len(locs), j \in 1..Len(locs) :
                    locs[i][1] = locs[j][1] => i = j
              /\ \A e \in Found :
                    /\ DictHas(locs, LocaleOf(e)) <=> k \in Range(FileKeys(e))
                    /\ k \in Range(FileKeys(e)) =>
                          DictGet(locs, LocaleOf(e)).stringUnit.value =
                              unescape(EntryLines(e)[LastPos(FileKeys(e), k)].value)
        /\ \A e \in Found : Len(DuplicateWarnings(e)) = Cardinality(DuplicateLines(e))
C8_Witness ==
    /\ pc = "write"
    /\ \E k \in Range(FileKeys(EnLproj)) \cap Range(FileKeys(DeLproj)) :
          /\ DuplicateLines(EnLproj) # {}
          /\ LastPos(FileKeys(EnLproj), k) # FirstPos(FileKeys(EnLproj), k)
          /\ EntryLines(EnLproj)[1].value # EntryLines(EnLproj)[2].value
          /\ k \notin Range(FileKeys(EnGBLproj))
          /\ Len(DictGet(xc.strings, k).localizations) = 2

(***************************************************************************)
(* The exported tree against the source text.                              *)
(***************************************************************************)
\* the lines of a text, the last one without "\n" included
RECURSIVE TextLines(_)
TextLines(t) ==
    LET n == DotRun(t, 1) IN
    IF n >= Len(t) THEN <<t>>
    ELSE <<SubSeq(t, 1, n)>> \o TextLines(SubSeq(t, n + 2, Len(t)))
\* a line of the form == <Language Name> == with a name of the locale table
IsRecognizedHeader(l) ==
    /\ Len(l) >= 3
    /\ l[1] = "=="
    /\ l[Len(l)] = "=="
    /\ strip(SubSeq(l, 2, Len(l) - 1)) \in DOMAIN LOCALES
RecognizedHeaders(t) ==
    {i \in 1..Len(TextLines(t)) : IsRecognizedHeader(TextLines(t)[i])}

\* C9: a source text with N blocks introduced by a header line with a name
\* of the locale table gives exactly N locale directories, each with the
\* five files; other blocks give none.
C9_OneDirectoryPerRecognizedBlock ==
    epc = "done" =>
        /\ Len(metadata) = Cardinality(RecognizedHeaders(text))
        /\ Range(DictKeys(metadata)) =
              {LOCALES[strip(SubSeq(TextLines(text)[i], 2, Len(TextLines(text)[i]) - 1))] :
                  i \in RecognizedHeaders(text)}

IsMarkerLine(l) == l # <<>> /\ l[1] = "Promotional Text:" /\ strip(Tail(l)) = <<>>
MarkerLines(content) ==
    {i \in 1..Len(TextLines(content)) : IsMarkerLine(TextLines(content)[i])}
\* the lines strictly after the line that follows the first marker line
ClaimedDescription(content) ==
    LET ls == TextLines(content)
        m == CHOOSE i \in MarkerLines(content) : \A j \in MarkerLines(content) : i <= j
    IN  join(SubSeq(ls, m + 2, Len(ls)))
\* C10: for a block with a `Promotional Text:` marker line, description.txt
\* holds (normalized) the lines strictly after the line that follows the
\* marker: the promo-text line is not part of it.
C10_DescriptionSkipsPromoLine ==
    (/\ epc = "export"
     /\ bidx > 1
     /\ pairs[bidx - 1][1] \in DOMAIN LOCALES
     /\ MarkerLines(pairs[bidx - 1][2]) # {})
    => DictGet(metadata, LOCALES[pairs[bidx - 1][1]]).description_txt =
           clean_desc(ClaimedDescription(pairs[bidx - 1][2]))

====
